---- MODULE Spec2Model ----
(***************************************************************************)
(* Model of port.go: RequestIntercepter, an http.RoundTripper that clones  *)
(* each request, lets a RequestModifier edit the clone, records            *)
(* original -> clone in modReq, forwards the clone to the Base transport   *)
(* and removes the entry when the response body reaches EOF or is closed.  *)
(*                                                                         *)
(* Every goroutine is a process with a program counter.  A step of a       *)
(* process runs the code up to the next point where it touches shared      *)
(* state (k.mu, k.modReq, the response body's fn) or blocks (the Modifier, *)
(* the Base transport, the mutex).                                         *)
(***************************************************************************)
EXTENDS Integers, Sequences, FiniteSets, TLC

\* ---------------------------------------------------------------- bounds
NumReqs == 2        \* distinct caller request objects
MaxOps == 2         \* RoundTrip invocations
MaxCancels == 1     \* CancelRequest invocations
MaxBodyCalls == 2   \* EOF reads / Closes performed on one response body

Reqs == 1..NumReqs
Ops == 1..MaxOps
Cancellers == 1..MaxCancels
Threads == {1, 2}           \* goroutines that may use one response body
SingleConsumer == {1}       \* the io.ReadCloser contract: one consumer

\* ---------------------------------------------------------------- values
Nil == <<"nil", 0>>                 \* the nil *http.Request
Orig(r) == <<"orig", r>>            \* the caller's request object r
Clone(o) == <<"clone", o>>          \* req2 allocated by invocation o
Err(name) == <<"err", name>>                    \* an error value
NoErr == <<"err", "nil">>                       \* the nil error
ModErrs == {Err("moderr")}                      \* errors of Intercept
TransErrs == {Err("refused"), Err("deadline")}  \* errors of Base.RoundTrip
EOF == Err("EOF")                               \* io.EOF
ReadResults ==                                  \* (n, err) of the inner Read
    {<<1, NoErr>>, <<0, EOF>>, <<1, EOF>>, <<0, Err("read")>>}
CloseResults == {NoErr, Err("close")}           \* err of the inner Close
NoCall == <<"none", 0, NoErr>>                  \* no Read / Close has returned
Res(o) == <<"res", o>>              \* the *http.Response Base returned to o
Fn(o) == <<"fn", o>>                \* the closure func() { k.setModReq(req, nil) }
Free == <<"free", 0>>
SendT(o) == <<"send", o>>
BodyT(o, t) == <<"body", o, t>>
CancelT(c) == <<"cancel", c>>

\* req.Body != nil: request 1 is sent with a body, the others without.
HasBody(r) == r = 1

\* line 64 returning the Modifier's error as it is
Wrap_bare(e) == e

\* errors.Wrap(err, "error while intercepting request")
Wrap(e) == <<"wrap", "error while intercepting request", e>>

VARIABLES
    baseCancels,    \* Base implements CancelRequest(*http.Request)
    mu,             \* k.mu: Free or the process holding it
    modReq,         \* k.modReq: [isNil, e]; e is the set of <<key, value>>
    pc,             \* RoundTrip invocation o: position
    opReq,          \* RoundTrip invocation o: req (0 before the call)
    reqBodyClosed,  \* RoundTrip invocation o: local reqBodyClosed
    ret,            \* RoundTrip invocation o: named results [res, err]
    baseGot,        \* request handed to Base.RoundTrip by invocation o
    baseRet,        \* what Base.RoundTrip returned to invocation o: [res, err]
    closes,         \* Close calls on req.Body during o: [base, ic]
    fn,             \* onEOFReader.fn of o's response body: Nil or Fn(o)
    rcClosed,       \* Close calls that reached the inner body rc
    bpc,            \* body consumer (o, t): position
    fired,          \* number of invocations of fn of o's body
    calls,          \* EOF reads and Closes started on o's body
    last,           \* consumer (o, t): what the inner rc returned to its last
                    \* Read / Close: <<kind, n, err>>
    bret,           \* consumer (o, t): what its last Read / Close returned
                    \* (NoCall while a call is running)
    cpc,            \* CancelRequest invocation c: position
    creq,           \* CancelRequest invocation c: req
    cmod,           \* CancelRequest invocation c: local modReq
    cancelled,      \* <<req, arg>>: arg was passed to Base.CancelRequest
    heap,           \* the objects a request is made of (see cloneRequest)
    req2,           \* the pointer cloneRequest returned (0 before the call)
    cstep,          \* position of the RoundTrip whose request is followed
    nEdits,         \* mutations the Modifier has made to *req2
    orig0,          \* the caller's request as it was when RoundTrip began
    expect,         \* orig0 with the Modifier's edits applied to the value
    seen            \* the request Base.RoundTrip was given, as Base reads it

vars == <<baseCancels, mu, modReq, pc, opReq, reqBodyClosed, ret, baseGot,
          baseRet, closes, fn, rcClosed, bpc, fired, calls, last, bret, cpc, creq,
          cmod, cancelled, heap, req2, cstep, nEdits, orig0, expect, seen>>

sendVars == <<pc, opReq, reqBodyClosed, ret, baseGot, baseRet, closes>>
bodyVars == <<fn, rcClosed, bpc, fired, calls, last, bret>>
cancelVars == <<cpc, creq, cmod, cancelled>>
cloneVars == <<heap, req2, cstep, nEdits, orig0, expect, seen>>

\* ---------------------------------------------------------------- the map
\* m[key] of a Go map (the zero value when absent or when the map is nil)
Lookup(m, key) ==
    IF \E p \in m.e : p[1] = key
    THEN (CHOOSE p \in m.e : p[1] = key)[2]
    ELSE Nil

\* delete(m, key) dropped: the entry stays
Delete_kept(m, key) == m

\* delete(m, key) removing every entry of the map
Delete_all(m, key) == [m EXCEPT !.e = {}]

\* delete(m, key): a no-op on a nil map and on an absent key
Delete(m, key) == [m EXCEPT !.e = {p \in m.e : p[1] # key}]

\* the new pair is added beside the one already stored under key
Store_beside(m, key, val) ==
    [isNil |-> FALSE, e |-> m.e \cup {<<key, val>>}]

\* m[key] = val dropping the entries stored under the other keys
Store_alone(m, key, val) == [isNil |-> FALSE, e |-> {<<key, val>>}]

\* m[key] = val: replaces the value stored under key
Store(m, key, val) ==
    [isNil |-> FALSE, e |-> {p \in m.e : p[1] # key} \cup {<<key, val>>}]

\* setModReq whose delete branch empties the whole map
setModReq_clears(m, orig, mod) ==
    IF mod = Nil THEN [isNil |-> FALSE, e |-> {}] ELSE Store(m, orig, mod)

\* setModReq, between Lock and the deferred Unlock
setModReq(m, orig, mod) ==
    LET made == IF m.isNil THEN [isNil |-> FALSE, e |-> {}] ELSE m
    IN  IF mod = Nil THEN Delete(made, orig) ELSE Store(made, orig, mod)

\* the deferred func left out: req.Body is never closed by RoundTrip
DeferredClose_never(r, closed) == 0

\* the deferred func of RoundTrip: number of req.Body.Close() calls it makes
DeferredClose(r, closed) == IF HasBody(r) /\ ~closed THEN 1 ELSE 0

\* line 71 left out: reqBodyClosed stays false
AfterBase_unset == FALSE

\* reqBodyClosed after Base.RoundTrip returned
AfterBase == TRUE

\* line 75 wrapping the transport's error as line 64 does
RetErr_wrapped(err) == Wrap(err)

\* line 75: the error RoundTrip returns when Base.RoundTrip returned err
RetErr(err) == err

\* the type assertion left out: every Base is taken for a canceler
IsCanceler_always(b) == TRUE

\* cr, ok := k.base().(canceler)
IsCanceler(b) == b


\* ---------------------------------------------------------------- requests
\* A request is a struct [method, header, url, body]: header points to a map
\* from keys to slices [arr, len] over backing arrays, url points to a URL
\* struct (0 is nil), body is the body stream's reference.
\*   heap.reqs : pointer -> struct       heap.maps : pointer -> (key -> slice)
\*   heap.arrs : pointer -> sequence     heap.urls : pointer -> [host]
MaxHdrLen == 2      \* values stored under one header key of the caller's request
MaxEdits == 2       \* mutations one Intercept call makes

Keys == {"A", "B"}
Vals == {"x", "y"}
EditVals == {"z"}
Hosts == {"h"}

EmptyHeap == [reqs |-> <<>>, maps |-> <<>>, arrs |-> <<>>, urls |-> <<>>]
NoView == [method |-> "", header |-> <<>>, url |-> <<"nil">>, body |-> 0]

ReqPtr == 1                         \* the caller's *http.Request
ArrPtr(n, k) == <<"arr", n, k>>     \* the array allocated by n for key k

\* f with x bound to v (x is added to the domain when new)
Put(f, x, v) == [y \in (DOMAIN f) \cup {x} |-> IF y = x THEN v ELSE f[y]]

\* f without x
Drop(f, x) == [y \in (DOMAIN f) \ {x} |-> f[y]]

\* the strings of slice sl
Elems(h, sl) == SubSeq(h.arrs[sl.arr], 1, sl.len)

\* what a reader of *p observes: the contents, not the pointers
View(h, p) ==
    LET r == h.reqs[p]
        m == h.maps[r.header]
    IN  [method |-> r.method,
         header |-> [k \in DOMAIN m |-> Elems(h, m[k])],
         url |-> IF r.url = 0 THEN <<"nil">> ELSE <<h.urls[r.url].host>>,
         body |-> r.body]

\* the heap holding only the caller's request with header hd and URL u
CallerHeap(hd, u) ==
    [reqs |-> (ReqPtr :> [method |-> "GET", header |-> 1,
                          url |-> IF u = <<"nil">> THEN 0 ELSE 1, body |-> 1]),
     maps |-> (1 :> [k \in DOMAIN hd |->
                        [arr |-> ArrPtr(1, k), len |-> Len(hd[k])]]),
     arrs |-> [a \in {ArrPtr(1, k) : k \in DOMAIN hd} |-> hd[a[3]]],
     urls |-> IF u = <<"nil">> THEN <<>> ELSE (1 :> [host |-> u[1]])]

\* cloneRequest sharing the value slices: r2.Header[k] = s
cloneRequest_sharedSlices(h, p) ==
    LET r == h.reqs[p]
        m == h.maps[r.header]
    IN  [reqs |-> Put(h.reqs, 2,
                      [r EXCEPT !.header = 2,
                                !.url = IF r.url = 0 THEN 0 ELSE 2]),
         maps |-> Put(h.maps, 2, m),
         arrs |-> h.arrs,
         urls |-> IF r.url = 0 THEN h.urls
                  ELSE Put(h.urls, 2, h.urls[r.url])]

\* cloneRequest(r): the heap after the call; the clone is *2.  The struct is
\* copied, the header map is a new map whose slices are copies on new
\* arrays, the URL struct is copied when r.URL is not nil.
cloneRequest(h, p) ==
    LET r == h.reqs[p]
        m == h.maps[r.header]
        copied == [a \in {ArrPtr(2, k) : k \in DOMAIN m} |->
                      Elems(h, m[a[3]])]
    IN  [reqs |-> Put(h.reqs, 2,
                      [r EXCEPT !.header = 2,
                                !.url = IF r.url = 0 THEN 0 ELSE 2]),
         maps |-> Put(h.maps, 2,
                      [k \in DOMAIN m |->
                          [arr |-> ArrPtr(2, k), len |-> m[k].len]]),
         arrs |-> [a \in (DOMAIN h.arrs) \cup (DOMAIN copied) |->
                      IF a \in DOMAIN copied THEN copied[a] ELSE h.arrs[a]],
         urls |-> IF r.url = 0 THEN h.urls
                  ELSE Put(h.urls, 2, h.urls[r.url])]

\* The Modifier's mutations of *p; n numbers the arrays an edit allocates.
Edits ==
    {<<"set", k, v, 0>> : k \in Keys, v \in EditVals}
        \cup {<<"add", k, v, 0>> : k \in Keys, v \in EditVals}
        \cup {<<"write", k, v, i>> :
                 k \in Keys, v \in EditVals, i \in 1..(MaxHdrLen + MaxEdits)}
        \cup {<<"del", k, "", 0>> : k \in Keys}
        \cup {<<"host", "", v, 0>> : v \in EditVals}
        \cup {<<"method", "", "POST", 0>>}

\* the edit can be made without a panic (index in range, URL not nil)
CanEdit(h, p, ed) ==
    LET r == h.reqs[p]
        m == h.maps[r.header]
    IN  CASE ed[1] = "write" -> ed[2] \in DOMAIN m /\ ed[4] <= m[ed[2]].len
          [] ed[1] = "host" -> r.url # 0
          [] OTHER -> TRUE

\* req.Header.Set / Add / [k][i] = v / Del, req.URL.Host = v, req.Method = v
ApplyEdit(h, p, ed, n) ==
    LET r == h.reqs[p]
        m == h.maps[r.header]
        k == ed[2]
        v == ed[3]
        new == ArrPtr(n, k)
    IN  CASE ed[1] = "set" ->
               [h EXCEPT !.maps[r.header] = Put(m, k, [arr |-> new, len |-> 1]),
                         !.arrs = Put(h.arrs, new, <<v>>)]
          [] ed[1] = "add" ->
               IF k \notin DOMAIN m
               THEN [h EXCEPT
                       !.maps[r.header] = Put(m, k, [arr |-> new, len |-> 1]),
                       !.arrs = Put(h.arrs, new, <<v>>)]
               ELSE IF m[k].len < Len(h.arrs[m[k].arr])
               THEN [h EXCEPT
                       !.maps[r.header][k].len = @ + 1,
                       !.arrs[m[k].arr][m[k].len + 1] = v]
               ELSE [h EXCEPT
                       !.maps[r.header][k] =
                           [arr |-> new, len |-> m[k].len + 1],
                       !.arrs = Put(h.arrs, new, Append(Elems(h, m[k]), v))]
          [] ed[1] = "write" -> [h EXCEPT !.arrs[m[k].arr][ed[4]] = v]
          [] ed[1] = "del" -> [h EXCEPT !.maps[r.header] = Drop(m, k)]
          [] ed[1] = "host" -> [h EXCEPT !.urls[r.url].host = v]
          [] OTHER -> [h EXCEPT !.reqs[p].method = v]

\* the same edit made to a request value
EditView(w, ed) ==
    LET k == ed[2]
        v == ed[3]
    IN  CASE ed[1] = "set" -> [w EXCEPT !.header = Put(@, k, <<v>>)]
          [] ed[1] = "add" ->
               [w EXCEPT !.header =
                   Put(@, k, IF k \in DOMAIN @ THEN Append(@[k], v)
                             ELSE <<v>>)]
          [] ed[1] = "write" -> [w EXCEPT !.header[k][ed[4]] = v]
          [] ed[1] = "del" -> [w EXCEPT !.header = Drop(@, k)]
          [] ed[1] = "host" -> [w EXCEPT !.url = <<v>>]
          [] OTHER -> [w EXCEPT !.method = v]

\* the caller's requests: any header over Keys, URL nil or set
CallerHeaders ==
    UNION {[ks -> UNION {[1..n -> Vals] : n \in 1..MaxHdrLen}] :
              ks \in SUBSET Keys}

\* ---------------------------------------------------------------- Init
TrackInit ==
    /\ mu = Free
    /\ modReq = [isNil |-> TRUE, e |-> {}]
    /\ pc = [o \in Ops |-> "idle"]
    /\ opReq = [o \in Ops |-> 0]
    /\ reqBodyClosed = [o \in Ops |-> FALSE]
    /\ ret = [o \in Ops |-> [res |-> Nil, err |-> NoErr]]
    /\ baseGot = [o \in Ops |-> Nil]
    /\ baseRet = [o \in Ops |-> [res |-> Nil, err |-> NoErr]]
    /\ closes = [o \in Ops |-> [base |-> 0, ic |-> 0]]
    /\ fn = [o \in Ops |-> Nil]
    /\ rcClosed = [o \in Ops |-> 0]
    /\ bpc = [o \in Ops |-> [t \in Threads |-> "idle"]]
    /\ fired = [o \in Ops |-> 0]
    /\ calls = [o \in Ops |-> 0]
    /\ last = [o \in Ops |-> [t \in Threads |-> NoCall]]
    /\ bret = [o \in Ops |-> [t \in Threads |-> NoCall]]
    /\ cpc = [c \in Cancellers |-> "idle"]
    /\ creq = [c \in Cancellers |-> 0]
    /\ cmod = [c \in Cancellers |-> Nil]
    /\ cancelled = {}

\* the requests' contents are not followed
CloneOff ==
    /\ heap = EmptyHeap
    /\ req2 = 0
    /\ cstep = "off"
    /\ nEdits = 0
    /\ orig0 = NoView
    /\ expect = NoView
    /\ seen = NoView

Init ==
    /\ baseCancels \in BOOLEAN
    /\ TrackInit
    /\ CloneOff

\* ---------------------------------------------------------------- RoundTrip
\* lines 49-62: entry, the deferred close is registered, req2 is cloned and
\* handed to the Modifier.  Invocations are numbered in the order they begin;
\* r may be a request object that an earlier invocation is still sending.
StartSend(o, r) ==
    /\ pc[o] = "idle"
    /\ \A p \in Ops : p < o => pc[p] # "idle"
    /\ pc' = [pc EXCEPT ![o] = "intercepting"]
    /\ opReq' = [opReq EXCEPT ![o] = r]
    /\ reqBodyClosed' = [reqBodyClosed EXCEPT ![o] = FALSE]
    /\ UNCHANGED <<baseCancels, mu, modReq, ret, baseGot, baseRet, closes>>
    /\ UNCHANGED bodyVars
    /\ UNCHANGED cancelVars
    /\ UNCHANGED cloneVars

\* lines 62-65: Intercept returned an error; RoundTrip returns it wrapped and
\* the deferred func runs.
InterceptFail(o, e) ==
    /\ pc[o] = "intercepting"
    /\ ret' = [ret EXCEPT ![o] = [res |-> Nil, err |-> Wrap(e)]]
    /\ closes' = [closes EXCEPT ![o].ic =
                     @ + DeferredClose(opReq[o], reqBodyClosed[o])]
    /\ pc' = [pc EXCEPT ![o] = "mod_failed"]
    /\ UNCHANGED <<baseCancels, mu, modReq, opReq, reqBodyClosed, baseGot,
                   baseRet>>
    /\ UNCHANGED bodyVars
    /\ UNCHANGED cancelVars
    /\ UNCHANGED cloneVars

\* lines 62-67: Intercept returned nil; RoundTrip goes on to setModReq.
InterceptOk(o) ==
    /\ pc[o] = "intercepting"
    /\ pc' = [pc EXCEPT ![o] = "record"]
    /\ UNCHANGED <<baseCancels, mu, modReq, opReq, reqBodyClosed, ret,
                   baseGot, baseRet, closes>>
    /\ UNCHANGED bodyVars
    /\ UNCHANGED cancelVars
    /\ UNCHANGED cloneVars

\* setModReq going on without k.mu.Lock()
RecordLock_skipped(o) ==
    /\ pc[o] = "record"
    /\ pc' = [pc EXCEPT ![o] = "record_locked"]
    /\ UNCHANGED <<baseCancels, mu, modReq, opReq, reqBodyClosed, ret,
                   baseGot, baseRet, closes>>
    /\ UNCHANGED bodyVars
    /\ UNCHANGED cancelVars
    /\ UNCHANGED cloneVars

\* line 120, called from line 67
RecordLock(o) ==
    /\ pc[o] = "record"
    /\ mu = Free
    /\ mu' = SendT(o)
    /\ pc' = [pc EXCEPT ![o] = "record_locked"]
    /\ UNCHANGED <<baseCancels, modReq, opReq, reqBodyClosed, ret, baseGot,
                   baseRet, closes>>
    /\ UNCHANGED bodyVars
    /\ UNCHANGED cancelVars
    /\ UNCHANGED cloneVars

\* lines 121-129 for setModReq(req, req2), then line 68 calls Base.RoundTrip
RecordStore(o) ==
    /\ pc[o] = "record_locked"
    /\ modReq' = setModReq(modReq, Orig(opReq[o]), Clone(o))
    /\ mu' = Free
    /\ baseGot' = [baseGot EXCEPT ![o] = Clone(o)]
    /\ pc' = [pc EXCEPT ![o] = "sending"]
    /\ UNCHANGED <<baseCancels, opReq, reqBodyClosed, ret, baseRet, closes>>
    /\ UNCHANGED bodyVars
    /\ UNCHANGED cancelVars
    /\ UNCHANGED cloneVars

\* lines 68-81: Base.RoundTrip returned a response; the body is wrapped and
\* the response returned.  closeIt: whether Base closed req.Body.
BaseOk(o, closeIt) ==
    /\ pc[o] = "sending"
    /\ closes' = [closes EXCEPT
                    ![o].base = @ + (IF HasBody(opReq[o]) /\ closeIt
                                     THEN 1 ELSE 0),
                    ![o].ic = @ + DeferredClose(opReq[o], AfterBase)]
    /\ reqBodyClosed' = [reqBodyClosed EXCEPT ![o] = AfterBase]
    /\ baseRet' = [baseRet EXCEPT ![o] = [res |-> Res(o), err |-> NoErr]]
    /\ ret' = [ret EXCEPT ![o] = [res |-> Res(o), err |-> NoErr]]
    /\ fn' = [fn EXCEPT ![o] = Fn(o)]
    /\ pc' = [pc EXCEPT ![o] = "returned"]
    /\ UNCHANGED <<baseCancels, mu, modReq, opReq, baseGot>>
    /\ UNCHANGED <<rcClosed, bpc, fired, calls, last, bret>>
    /\ UNCHANGED cancelVars
    /\ UNCHANGED cloneVars

\* lines 68-74: Base.RoundTrip returned error e; RoundTrip goes on to
\* setModReq(req, nil).
BaseErr(o, e, closeIt) ==
    /\ pc[o] = "sending"
    /\ closes' = [closes EXCEPT
                    ![o].base = @ + (IF HasBody(opReq[o]) /\ closeIt
                                     THEN 1 ELSE 0)]
    /\ reqBodyClosed' = [reqBodyClosed EXCEPT ![o] = AfterBase]
    /\ baseRet' = [baseRet EXCEPT ![o] = [res |-> Nil, err |-> e]]
    /\ pc' = [pc EXCEPT ![o] = "cleanup"]
    /\ UNCHANGED <<baseCancels, mu, modReq, opReq, ret, baseGot>>
    /\ UNCHANGED bodyVars
    /\ UNCHANGED cancelVars
    /\ UNCHANGED cloneVars

\* line 120, called from line 74
CleanupLock(o) ==
    /\ pc[o] = "cleanup"
    /\ mu = Free
    /\ mu' = SendT(o)
    /\ pc' = [pc EXCEPT ![o] = "cleanup_locked"]
    /\ UNCHANGED <<baseCancels, modReq, opReq, reqBodyClosed, ret, baseGot,
                   baseRet, closes>>
    /\ UNCHANGED bodyVars
    /\ UNCHANGED cancelVars
    /\ UNCHANGED cloneVars

\* setModReq(req, nil) returning without the deferred k.mu.Unlock()
CleanupReturn_stillLocked(o) ==
    /\ pc[o] = "cleanup_locked"
    /\ modReq' = setModReq(modReq, Orig(opReq[o]), Nil)
    /\ mu' = mu
    /\ ret' = [ret EXCEPT ![o] = [res |-> Nil, err |-> RetErr(baseRet[o].err)]]
    /\ closes' = [closes EXCEPT ![o].ic =
                     @ + DeferredClose(opReq[o], reqBodyClosed[o])]
    /\ pc' = [pc EXCEPT ![o] = "send_failed"]
    /\ UNCHANGED <<baseCancels, opReq, reqBodyClosed, baseGot, baseRet>>
    /\ UNCHANGED bodyVars
    /\ UNCHANGED cancelVars
    /\ UNCHANGED cloneVars

\* lines 121-129 for setModReq(req, nil), then line 75 returns nil, err and
\* the deferred func runs.
CleanupReturn(o) ==
    /\ pc[o] = "cleanup_locked"
    /\ modReq' = setModReq(modReq, Orig(opReq[o]), Nil)
    /\ mu' = Free
    /\ ret' = [ret EXCEPT ![o] = [res |-> Nil, err |-> RetErr(baseRet[o].err)]]
    /\ closes' = [closes EXCEPT ![o].ic =
                     @ + DeferredClose(opReq[o], reqBodyClosed[o])]
    /\ pc' = [pc EXCEPT ![o] = "send_failed"]
    /\ UNCHANGED <<baseCancels, opReq, reqBodyClosed, baseGot, baseRet>>
    /\ UNCHANGED bodyVars
    /\ UNCHANGED cancelVars
    /\ UNCHANGED cloneVars

\* ---------------------------------------------------------------- onEOFReader
\* line 146 taking every error for the end of the stream
IsEOF_anyErr(err) == err # NoErr

\* line 146: err == io.EOF
IsEOF(err) == err = EOF

\* line 154 skipped when the inner Close failed
CloseRuns_onlyOk(err) == err = NoErr

\* lines 153-154: runFunc is called whatever the inner Close returned
CloseRuns(err) == TRUE

\* line 159 without the nil check
FnDue_always(f) == TRUE

\* line 159: fn := r.fn; fn != nil
FnDue(f) == f # Nil

\* line 159 of runFunc: the call of fn is due iff r.fn is not nil
RunFuncPc(f) == IF FnDue(f) THEN "fn_lock" ELSE "idle"

\* lines 144-150 and 159: Read; the inner Read returned res = (n, err).
\* Without a cleanup to run the call returns in the same step.
BodyRead(o, t, res) ==
    /\ pc[o] = "returned"
    /\ bpc[o][t] = "idle"
    /\ last' = [last EXCEPT ![o][t] = <<"read", res[1], res[2]>>]
    /\ IF IsEOF(res[2])
       THEN /\ calls[o] < MaxBodyCalls
            /\ calls' = [calls EXCEPT ![o] = @ + 1]
            /\ bpc' = [bpc EXCEPT ![o][t] = RunFuncPc(fn[o])]
            /\ fired' = [fired EXCEPT ![o] =
                            @ + (IF FnDue(fn[o]) THEN 1 ELSE 0)]
            /\ bret' = [bret EXCEPT ![o][t] =
                           IF FnDue(fn[o]) THEN NoCall
                           ELSE <<"read", res[1], res[2]>>]
       ELSE /\ bret' = [bret EXCEPT ![o][t] = <<"read", res[1], res[2]>>]
            /\ UNCHANGED <<calls, bpc, fired>>
    /\ UNCHANGED <<baseCancels, mu, modReq, fn, rcClosed>>
    /\ UNCHANGED sendVars
    /\ UNCHANGED cancelVars
    /\ UNCHANGED cloneVars

\* lines 152-156 and 159: Close; the inner Close returned err.
BodyClose(o, t, err) ==
    /\ pc[o] = "returned"
    /\ bpc[o][t] = "idle"
    /\ calls[o] < MaxBodyCalls
    /\ calls' = [calls EXCEPT ![o] = @ + 1]
    /\ rcClosed' = [rcClosed EXCEPT ![o] = @ + 1]
    /\ last' = [last EXCEPT ![o][t] = <<"close", 0, err>>]
    /\ IF CloseRuns(err) /\ FnDue(fn[o])
       THEN /\ bpc' = [bpc EXCEPT ![o][t] = "fn_lock"]
            /\ fired' = [fired EXCEPT ![o] = @ + 1]
            /\ bret' = [bret EXCEPT ![o][t] = NoCall]
       ELSE /\ bret' = [bret EXCEPT ![o][t] = <<"close", 0, err>>]
            /\ UNCHANGED <<bpc, fired>>
    /\ UNCHANGED <<baseCancels, mu, modReq, fn>>
    /\ UNCHANGED sendVars
    /\ UNCHANGED cancelVars
    /\ UNCHANGED cloneVars

\* line 160 -> line 79 -> line 120
FnLock(o, t) ==
    /\ bpc[o][t] = "fn_lock"
    /\ mu = Free
    /\ mu' = BodyT(o, t)
    /\ bpc' = [bpc EXCEPT ![o][t] = "fn_locked"]
    /\ UNCHANGED <<baseCancels, modReq, fn, rcClosed, fired, calls, last, bret>>
    /\ UNCHANGED sendVars
    /\ UNCHANGED cancelVars
    /\ UNCHANGED cloneVars

\* lines 121-129 for setModReq(req, nil)
FnDelete(o, t) ==
    /\ bpc[o][t] = "fn_locked"
    /\ modReq' = setModReq(modReq, Orig(opReq[o]), Nil)
    /\ mu' = Free
    /\ bpc' = [bpc EXCEPT ![o][t] = "fn_clear"]
    /\ UNCHANGED <<baseCancels, fn, rcClosed, fired, calls, last, bret>>
    /\ UNCHANGED sendVars
    /\ UNCHANGED cancelVars
    /\ UNCHANGED cloneVars

\* line 161 left out: fn stays set
ClearFn_kept(f) == f

\* r.fn after line 161
ClearFn(f) == Nil

\* line 161, then Read (line 149) / Close (line 155) returns what the inner
\* call returned
FnClear(o, t) ==
    /\ bpc[o][t] = "fn_clear"
    /\ fn' = [fn EXCEPT ![o] = ClearFn(fn[o])]
    /\ bret' = [bret EXCEPT ![o][t] = last[o][t]]
    /\ bpc' = [bpc EXCEPT ![o][t] = "idle"]
    /\ UNCHANGED <<baseCancels, mu, modReq, rcClosed, fired, calls, last>>
    /\ UNCHANGED sendVars
    /\ UNCHANGED cancelVars
    /\ UNCHANGED cloneVars

\* ---------------------------------------------------------------- CancelRequest
\* lines 106-110: entry and the type assertion; without the capability the
\* call returns at once.  Invocations are numbered in the order they begin.
CancelStart(c, r) ==
    /\ cpc[c] = "idle"
    /\ \A d \in Cancellers : d < c => cpc[d] # "idle"
    /\ creq' = [creq EXCEPT ![c] = r]
    /\ cpc' = [cpc EXCEPT ![c] =
                  IF IsCanceler(baseCancels) THEN "lock" ELSE "done"]
    /\ UNCHANGED <<baseCancels, mu, modReq, cmod, cancelled>>
    /\ UNCHANGED sendVars
    /\ UNCHANGED bodyVars
    /\ UNCHANGED cloneVars

\* line 111
CancelLock(c) ==
    /\ cpc[c] = "lock"
    /\ mu = Free
    /\ mu' = CancelT(c)
    /\ cpc' = [cpc EXCEPT ![c] = "locked"]
    /\ UNCHANGED <<baseCancels, modReq, creq, cmod, cancelled>>
    /\ UNCHANGED sendVars
    /\ UNCHANGED bodyVars
    /\ UNCHANGED cloneVars

\* lines 112-114
CancelTake(c) ==
    /\ cpc[c] = "locked"
    /\ cmod' = [cmod EXCEPT ![c] = Lookup(modReq, Orig(creq[c]))]
    /\ modReq' = Delete(modReq, Orig(creq[c]))
    /\ mu' = Free
    /\ cpc' = [cpc EXCEPT ![c] = "forward"]
    /\ UNCHANGED <<baseCancels, creq, cancelled>>
    /\ UNCHANGED sendVars
    /\ UNCHANGED bodyVars
    /\ UNCHANGED cloneVars

\* line 115
CancelForward(c) ==
    /\ cpc[c] = "forward"
    /\ cancelled' = cancelled \cup {<<Orig(creq[c]), cmod[c]>>}
    /\ cpc' = [cpc EXCEPT ![c] = "done"]
    /\ UNCHANGED <<baseCancels, mu, modReq, creq, cmod>>
    /\ UNCHANGED sendVars
    /\ UNCHANGED bodyVars
    /\ UNCHANGED cloneVars

\* ---------------------------------------------------------------- cloneRequest
\* RoundTrip followed through the contents of one request.
\* line 59: req2 := cloneRequest(req)
CloneStep ==
    /\ cstep = "start"
    /\ heap' = cloneRequest(heap, ReqPtr)
    /\ req2' = 2
    /\ cstep' = "modifying"
    /\ UNCHANGED <<nEdits, orig0, expect, seen>>
    /\ UNCHANGED <<baseCancels, mu, modReq>>
    /\ UNCHANGED sendVars
    /\ UNCHANGED bodyVars
    /\ UNCHANGED cancelVars

\* line 62: one mutation of *req2 inside Intercept
ModifyStep(ed) ==
    /\ cstep = "modifying"
    /\ nEdits < MaxEdits
    /\ CanEdit(heap, req2, ed)
    /\ heap' = ApplyEdit(heap, req2, ed, 3 + nEdits)
    /\ expect' = EditView(expect, ed)
    /\ nEdits' = nEdits + 1
    /\ UNCHANGED <<req2, cstep, orig0, seen>>
    /\ UNCHANGED <<baseCancels, mu, modReq>>
    /\ UNCHANGED sendVars
    /\ UNCHANGED bodyVars
    /\ UNCHANGED cancelVars

\* lines 62-68: Intercept returned nil and Base.RoundTrip(req2) reads *req2
DeliverStep ==
    /\ cstep = "modifying"
    /\ seen' = View(heap, req2)
    /\ cstep' = "sent"
    /\ UNCHANGED <<heap, req2, nEdits, orig0, expect>>
    /\ UNCHANGED <<baseCancels, mu, modReq>>
    /\ UNCHANGED sendVars
    /\ UNCHANGED bodyVars
    /\ UNCHANGED cancelVars

InitClone ==
    /\ baseCancels = FALSE
    /\ TrackInit
    /\ \E hd \in CallerHeaders, u \in {<<"nil">>} \cup {<<x>> : x \in Hosts} :
          /\ heap = CallerHeap(hd, u)
          /\ orig0 = View(CallerHeap(hd, u), ReqPtr)
          /\ expect = View(CallerHeap(hd, u), ReqPtr)
    /\ req2 = 0
    /\ cstep = "start"
    /\ nEdits = 0
    /\ seen = NoView

NextClone ==
    \/ CloneStep
    \/ \E ed \in Edits : ModifyStep(ed)
    \/ DeliverStep

SpecClone == InitClone /\ [][NextClone]_vars

\* ---------------------------------------------------------------- Spec
Next ==
    \/ \E o \in Ops, r \in Reqs : StartSend(o, r)
    \/ \E o \in Ops, e \in ModErrs : InterceptFail(o, e)
    \/ \E o \in Ops : InterceptOk(o)
    \/ \E o \in Ops : RecordLock(o)
    \/ \E o \in Ops : RecordStore(o)
    \/ \E o \in Ops, b \in BOOLEAN : BaseOk(o, b)
    \/ \E o \in Ops, e \in TransErrs, b \in BOOLEAN : BaseErr(o, e, b)
    \/ \E o \in Ops : CleanupLock(o)
    \/ \E o \in Ops : CleanupReturn(o)
    \/ \E o \in Ops, t \in SingleConsumer, res \in ReadResults :
          BodyRead(o, t, res)
    \/ \E o \in Ops, t \in SingleConsumer, err \in CloseResults :
          BodyClose(o, t, err)
    \/ \E o \in Ops, t \in SingleConsumer : FnLock(o, t)
    \/ \E o \in Ops, t \in SingleConsumer : FnDelete(o, t)
    \/ \E o \in Ops, t \in SingleConsumer : FnClear(o, t)
    \/ \E c \in Cancellers, r \in Reqs : CancelStart(c, r)
    \/ \E c \in Cancellers : CancelLock(c)
    \/ \E c \in Cancellers : CancelTake(c)
    \/ \E c \in Cancellers : CancelForward(c)

Spec == Init /\ [][Next]_vars

\* A response body shared by two goroutines: the first reads and closes it,
\* a second one may close it at any time.  CancelRequest is not called.
Closer == 2

NextRace ==
    \/ \E o \in Ops, r \in Reqs : StartSend(o, r)
    \/ \E o \in Ops, e \in ModErrs : InterceptFail(o, e)
    \/ \E o \in Ops : InterceptOk(o)
    \/ \E o \in Ops : RecordLock(o)
    \/ \E o \in Ops : RecordStore(o)
    \/ \E o \in Ops, b \in BOOLEAN : BaseOk(o, b)
    \/ \E o \in Ops, e \in TransErrs, b \in BOOLEAN : BaseErr(o, e, b)
    \/ \E o \in Ops : CleanupLock(o)
    \/ \E o \in Ops : CleanupReturn(o)
    \/ \E o \in Ops, res \in ReadResults : BodyRead(o, 1, res)
    \/ \E o \in Ops, t \in {1, Closer}, err \in CloseResults :
          BodyClose(o, t, err)
    \/ \E o \in Ops, t \in {1, Closer} : FnLock(o, t)
    \/ \E o \in Ops, t \in {1, Closer} : FnDelete(o, t)
    \/ \E o \in Ops, t \in {1, Closer} : FnClear(o, t)

InitRace ==
    /\ baseCancels = FALSE
    /\ TrackInit
    /\ CloneOff

SpecRace == InitRace /\ [][NextRace]_vars

\* Progress.  The values that have no bearing on k.mu are fixed: Base closes
\* the request body and fails with one error, the inner Read returns
\* (0, io.EOF) and the inner Close returns nil.
NextLive ==
    \/ \E o \in Ops, r \in Reqs : StartSend(o, r)
    \/ \E o \in Ops, e \in ModErrs : InterceptFail(o, e)
    \/ \E o \in Ops : InterceptOk(o)
    \/ \E o \in Ops : RecordLock(o)
    \/ \E o \in Ops : RecordStore(o)
    \/ \E o \in Ops : BaseOk(o, TRUE)
    \/ \E o \in Ops : BaseErr(o, Err("refused"), TRUE)
    \/ \E o \in Ops : CleanupLock(o)
    \/ \E o \in Ops : CleanupReturn(o)
    \/ \E o \in Ops, t \in SingleConsumer : BodyRead(o, t, <<0, EOF>>)
    \/ \E o \in Ops, t \in SingleConsumer : BodyClose(o, t, NoErr)
    \/ \E o \in Ops, t \in SingleConsumer : FnLock(o, t)
    \/ \E o \in Ops, t \in SingleConsumer : FnDelete(o, t)
    \/ \E o \in Ops, t \in SingleConsumer : FnClear(o, t)
    \/ \E c \in Cancellers, r \in Reqs : CancelStart(c, r)
    \/ \E c \in Cancellers : CancelLock(c)
    \/ \E c \in Cancellers : CancelTake(c)
    \/ \E c \in Cancellers : CancelForward(c)

\* Fair scheduling: a goroutine that is inside the interceptor's own code and
\* can take its next step (k.mu.Lock() with k.mu free, a statement inside the
\* critical section, the statement after Unlock) eventually takes it.  The
\* Modifier, Base.RoundTrip and the callers of RoundTrip, CancelRequest, Read
\* and Close are under no such obligation.
Fairness ==
    /\ \A o \in Ops :
          /\ WF_vars(RecordLock(o)) /\ WF_vars(RecordStore(o))
          /\ WF_vars(CleanupLock(o)) /\ WF_vars(CleanupReturn(o))
    /\ \A o \in Ops, t \in SingleConsumer :
          /\ WF_vars(FnLock(o, t)) /\ WF_vars(FnDelete(o, t))
          /\ WF_vars(FnClear(o, t))
    /\ \A c \in Cancellers :
          /\ WF_vars(CancelLock(c)) /\ WF_vars(CancelTake(c))
          /\ WF_vars(CancelForward(c))

SpecLive == Init /\ [][NextLive]_vars /\ Fairness

\* ---------------------------------------------------------------- vocabulary
\* the entry invocation o writes into modReq
Entry(o) == <<Orig(opReq[o]), Clone(o)>>

\* some entry is stored under the caller's request r
HasKey(m, r) == \E p \in m.e : p[1] = Orig(r)

\* no Read or Close is running on o's response body
BodyIdle(o) == \A t \in Threads : bpc[o][t] = "idle"

\* an EOF read or a Close of o's response body has returned
BodyDone(o) == pc[o] = "returned" /\ calls[o] > 0 /\ BodyIdle(o)

\* RoundTrip invocation o is over: it returned an error, or it returned a
\* response whose body was then read to EOF or closed
Completed(o) == pc[o] \in {"mod_failed", "send_failed"} \/ BodyDone(o)

\* o recorded its entry and is not over yet
InFlight(o) ==
    \/ pc[o] \in {"sending", "cleanup", "cleanup_locked"}
    \/ pc[o] = "returned" /\ ~BodyDone(o)

\* the step is o's own removal of its entry (lines 74 and 79)
OwnCleanup(o) ==
    \/ pc[o] = "cleanup_locked" /\ pc'[o] = "send_failed"
    \/ \E t \in Threads : bpc[o][t] = "fn_locked" /\ bpc'[o][t] = "fn_clear"

\* the step is the lookup-and-delete of a CancelRequest(r) (lines 112-113)
CancelOf(r) ==
    \E c \in Cancellers :
        cpc[c] = "locked" /\ cpc'[c] = "forward" /\ creq[c] = r

\* the step is a setModReq of another RoundTrip of the same request object
OtherSend(o) ==
    \E p \in Ops \ {o} :
        /\ opReq[p] = opReq[o]
        /\ \/ pc[p] = "record_locked" /\ pc'[p] = "sending"
           \/ OwnCleanup(p)

\* the step is a CancelRequest on a Base without the capability (line 110)
CancelNoOp(c) == cpc[c] = "idle" /\ cpc'[c] = "done"

\* ---------------------------------------------------------------- claims
\* C1: once every RoundTrip that was started is over (Modifier failure, send
\* failure, or success followed by an EOF read or a Close of the body), the
\* tracking map has no entries.
C1_EmptyWhenAllCompleted ==
    (\A o \in Ops : pc[o] = "idle" \/ Completed(o)) => modReq.e = {}

C1_Witness ==
    /\ \A o \in Ops : Completed(o)
    /\ \E o \in Ops : pc[o] = "send_failed"
    /\ \E o \in Ops : pc[o] = "returned"
    /\ modReq.e = {}

\* C2: the map never holds two entries under one original request, every
\* entry is the entry of a RoundTrip that is in flight, and no entry of a
\* RoundTrip that is over remains.
C2_EntriesAreInFlight ==
    /\ \A p \in modReq.e, q \in modReq.e : p[1] = q[1] => p = q
    /\ \A p \in modReq.e : \E o \in Ops : InFlight(o) /\ p = Entry(o)
    /\ \A o \in Ops : Completed(o) => Entry(o) \notin modReq.e

C2_Witness ==
    /\ Cardinality(modReq.e) = 1
    /\ \E o \in Ops, p \in Ops :
          /\ o # p /\ opReq[o] = opReq[p]
          /\ InFlight(o) /\ InFlight(p)
          /\ Entry(p) \in modReq.e

\* C3 (as claimed): from its recording until the underlying send fails or the
\* first EOF read / Close of the body, the entry original -> clone is in the
\* map: while Base processes the clone and while the body is untouched.
C3_PresentUntilDone ==
    \A o \in Ops :
        (pc[o] = "sending" \/ (pc[o] = "returned" /\ calls[o] = 0))
            => Entry(o) \in modReq.e

\* C3 (amended): the record step puts the entry into the map before Base is
\* invoked, and the entry leaves the map only by the invocation's own cleanup
\* (send failure, first EOF read or Close), by CancelRequest of the same
\* original, or by a setModReq of another RoundTrip of the same original.
C3_RemovedOnlyBy ==
    [][\A o \in Ops :
          /\ (pc[o] = "record_locked" /\ pc'[o] = "sending")
                => (Entry(o) \in modReq'.e /\ baseGot'[o] = Clone(o))
          /\ (pc[o] # "idle" /\ Entry(o) \in modReq.e
                /\ Entry(o) \notin modReq'.e)
                => (OwnCleanup(o) \/ CancelOf(opReq[o]) \/ OtherSend(o))]_vars

C3_Witness ==
    \E o \in Ops, c \in Cancellers :
        /\ pc[o] = "sending"
        /\ Entry(o) \notin modReq.e
        /\ cpc[c] = "done"
        /\ <<Orig(opReq[o]), Clone(o)>> \in cancelled

\* C4: when the Modifier fails, RoundTrip returns nil and the Modifier's error
\* wrapped, Base.RoundTrip is never invoked and the step leaves the tracking
\* map as it was, with no entry of this invocation in it.
C4_ModifierFailure ==
    /\ [](\A o \in Ops : pc[o] = "mod_failed" =>
            /\ ret[o].res = Nil
            /\ \E e \in ModErrs : ret[o].err = Wrap(e)
            /\ ret[o].err \notin ModErrs
            /\ baseGot[o] = Nil
            /\ \A p \in modReq.e : p[2] # Clone(o))
    /\ [][\A o \in Ops :
            (pc[o] = "intercepting" /\ pc'[o] = "mod_failed")
                => (modReq' = modReq /\ baseGot' = baseGot)]_vars

C4_Witness ==
    \E o \in Ops, p \in Ops :
        /\ pc[o] = "mod_failed"
        /\ pc[p] = "sending" /\ opReq[p] = opReq[o]
        /\ Entry(p) \in modReq.e

\* C5: when Base.RoundTrip fails, RoundTrip returns nil and exactly the error
\* Base returned, and at its return no entry is stored under the original.
C5_TransportFailure ==
    /\ [](\A o \in Ops : pc[o] = "send_failed" =>
            /\ ret[o].res = Nil
            /\ ret[o].err = baseRet[o].err
            /\ ret[o].err \in TransErrs)
    /\ [][\A o \in Ops :
            (pc[o] # "send_failed" /\ pc'[o] = "send_failed")
                => ~HasKey(modReq', opReq[o])]_vars

C5_Witness ==
    \E o \in Ops :
        /\ pc[o] = "send_failed"
        /\ ret[o].err = Err("deadline")
        /\ ~HasKey(modReq, opReq[o])

\* C6: over any sequence of Read and Close calls on one response body the
\* cleanup callback runs at most once, exactly once as soon as an EOF read or
\* a Close has returned, and fn is nil from then on.
C6_CleanupOnce ==
    \A o \in Ops :
        /\ fired[o] <= 1
        /\ BodyDone(o) => (fired[o] = 1 /\ fn[o] = Nil)
        /\ (pc[o] = "returned" /\ calls[o] = 0) => (fired[o] = 0 /\ fn[o] = Fn(o))

C6_Witness ==
    \E o \in Ops :
        /\ BodyDone(o)
        /\ calls[o] = MaxBodyCalls
        /\ last[o][1][1] = "close"
        /\ rcClosed[o] < calls[o]
        /\ fired[o] = 1

\* C7: Base receives the clone, whose contents are the caller's request with
\* the Modifier's header and URL edits applied, while the caller's request
\* reads as it did when RoundTrip began, during Intercept and after the send.
C7_CloneNotAliased ==
    /\ cstep \in {"modifying", "sent"} =>
          /\ req2 # ReqPtr
          /\ View(heap, ReqPtr) = orig0
          /\ View(heap, req2) = expect
          /\ heap.reqs[req2].body = heap.reqs[ReqPtr].body
    /\ cstep = "sent" => seen = expect

C7_Witness ==
    /\ cstep = "sent"
    /\ nEdits = MaxEdits
    /\ orig0.url # <<"nil">>
    /\ seen.url # orig0.url
    /\ \E k \in DOMAIN orig0.header :
          k \in DOMAIN seen.header /\ seen.header[k] # orig0.header[k]
    /\ View(heap, ReqPtr) = orig0

\* C8 (as claimed): Base.CancelRequest is only ever handed the clone recorded
\* for the original, never nil and never the original.
C8_ForwardsOnlyRecordedClone ==
    \A p \in cancelled : p[2] # Nil /\ p[2][1] = "clone"

\* C9 (as claimed): on a Base without the capability CancelRequest forwards
\* nothing and disturbs no RoundTrip, yet removes the entry of the original.
C9_NoCapabilityStillRemoves ==
    [][\A c \in Cancellers : CancelNoOp(c) =>
          /\ cancelled' = cancelled
          /\ pc' = pc
          /\ ~HasKey(modReq', creq'[c])]_vars

\* C9 (amended): on a Base without the capability CancelRequest does nothing
\* at all: it never takes the lock, forwards nothing, disturbs no RoundTrip
\* and leaves the tracking map, the entry of the original included, as it was.
C9_NoCapabilityNoOp ==
    /\ [](~baseCancels =>
            /\ cancelled = {}
            /\ \A c \in Cancellers : cpc[c] \in {"idle", "done"})
    /\ [][\A c \in Cancellers : CancelNoOp(c) =>
            /\ ~baseCancels
            /\ cancelled' = cancelled
            /\ pc' = pc /\ bpc' = bpc /\ mu' = mu
            /\ modReq' = modReq]_vars

C9_Witness ==
    \E c \in Cancellers, o \in Ops :
        /\ ~baseCancels
        /\ cpc[c] = "done"
        /\ pc[o] = "sending" /\ opReq[o] = creq[c]
        /\ Entry(o) \in modReq.e

\* C10 (as claimed): once a RoundTrip that reached Base has returned, the
\* body of its request has been closed exactly once, by Base or else by the
\* interceptor.
C10_ClosedExactlyOnce ==
    \A o \in Ops :
        (pc[o] \in {"returned", "send_failed"} /\ HasBody(opReq[o]))
            => closes[o].base + closes[o].ic = 1

\* C10 (amended): once a RoundTrip that reached Base has returned, the
\* interceptor has not closed the body of its request: the body has been
\* closed exactly as often as Base closed it, once if Base closed it and not
\* at all if Base did not.
C10_ClosedOnlyByBase ==
    \A o \in Ops :
        (pc[o] \in {"returned", "send_failed"} /\ HasBody(opReq[o]))
            => /\ reqBodyClosed[o]
               /\ closes[o].ic = 0
               /\ closes[o].base \in {0, 1}

C10_Witness ==
    \E o \in Ops, p \in Ops :
        /\ pc[o] = "returned" /\ HasBody(opReq[o])
        /\ closes[o].base = 0 /\ closes[o].ic = 0
        /\ pc[p] = "send_failed" /\ HasBody(opReq[p])
        /\ closes[p].base = 1

\* the processes that are inside a section guarded by k.mu
InCritical ==
    {SendT(o) : o \in {p \in Ops : pc[p] \in {"record_locked", "cleanup_locked"}}}
        \cup {BodyT(x[1], x[2]) :
                 x \in {y \in Ops \X Threads : bpc[y[1]][y[2]] = "fn_locked"}}
        \cup {CancelT(c) : c \in {d \in Cancellers : cpc[d] = "locked"}}

\* the process whose step this is
Acts(h) ==
    \/ \E o \in Ops : h = SendT(o) /\ pc'[o] # pc[o]
    \/ \E o \in Ops, t \in Threads : h = BodyT(o, t) /\ bpc'[o][t] # bpc[o][t]
    \/ \E c \in Cancellers : h = CancelT(c) /\ cpc'[c] # cpc[c]

\* C11: every read, write and delete of the tracking map is made by the
\* process holding k.mu, so no two map operations overlap; and a process
\* holds k.mu only inside setModReq or lines 111-114 of CancelRequest: not
\* while its Modifier runs, while Base.RoundTrip or Base.CancelRequest runs,
\* or while the inner body is read or closed.
C11_MapOnlyUnderLock ==
    /\ [](/\ Cardinality(InCritical) <= 1
          /\ InCritical = (IF mu = Free THEN {} ELSE {mu})
          /\ \A o \in Ops :
                pc[o] \in {"intercepting", "sending"} => mu # SendT(o)
          /\ \A c \in Cancellers : cpc[c] = "forward" => mu # CancelT(c)
          /\ \A o \in Ops, t \in Threads :
                bpc[o][t] \in {"idle", "fn_lock"} => mu # BodyT(o, t))
    /\ [][(modReq' # modReq \/ cmod' # cmod)
              => (mu # Free /\ Acts(mu) /\ mu' = Free)]_vars

C11_Witness ==
    \E o \in Ops, p \in Ops, c \in Cancellers :
        /\ pc[o] = "sending"
        /\ pc[p] = "intercepting"
        /\ mu = CancelT(c)
        /\ HasKey(modReq, creq[c])

\* the step is a Read of consumer (o, t): its inner Read returns
ReadStep(o, t) ==
    /\ bpc[o][t] = "idle"
    /\ last'[o][t][1] = "read"
    /\ (last'[o][t] # last[o][t] \/ bret'[o][t] # bret[o][t]
            \/ bpc'[o][t] # "idle" \/ calls'[o] # calls[o])

\* C12: Read returns the byte count and error the inner Read returned; it
\* runs the cleanup iff that error is io.EOF, and then the entry is gone
\* before Read returns; a Read returning data or another error leaves the
\* entry, fn and the map as they were.
C12_ReadCleansUpOnlyOnEOF ==
    /\ [](\A o \in Ops, t \in Threads :
            (bpc[o][t] = "idle" /\ last[o][t][1] = "read") =>
                /\ bret[o][t] = last[o][t]
                /\ last[o][t][3] = EOF =>
                      (fired[o] = 1 /\ fn[o] = Nil /\ Entry(o) \notin modReq.e))
    /\ [][\A o \in Ops, t \in Threads : ReadStep(o, t) =>
            IF last'[o][t][3] = EOF
            THEN /\ fn[o] # Nil => (bpc'[o][t] = "fn_lock" /\ fired'[o] = fired[o] + 1)
                 /\ fn[o] = Nil => (bpc'[o][t] = "idle" /\ fired'[o] = fired[o])
            ELSE /\ bpc'[o][t] = "idle" /\ bret'[o][t] = last'[o][t]
                 /\ modReq' = modReq /\ fn' = fn /\ fired' = fired
                 /\ calls' = calls]_vars

C12_Witness ==
    \E o \in Ops, p \in Ops :
        /\ bret[o][1] = <<"read", 0, Err("read")>>
        /\ calls[o] = 0 /\ Entry(o) \in modReq.e
        /\ bpc[p][1] = "idle" /\ bret[p][1] = <<"read", 1, EOF>>
        /\ fired[p] = 1 /\ Entry(p) \notin modReq.e

\* C13: Close closes the inner body first, then runs the cleanup, then
\* returns the inner Close's error; the cleanup runs and the entry is removed
\* also when the inner Close failed.
C13_CloseCleansUpAlways ==
    /\ [](\A o \in Ops, t \in Threads :
            /\ (bpc[o][t] = "idle" /\ last[o][t][1] = "close") =>
                  /\ bret[o][t] = last[o][t]
                  /\ rcClosed[o] >= 1
                  /\ fired[o] = 1 /\ fn[o] = Nil
                  /\ Entry(o) \notin modReq.e
            /\ (bpc[o][t] # "idle" /\ last[o][t][1] = "close") =>
                  (rcClosed[o] >= 1 /\ bret[o][t] = NoCall))
    /\ [][\A o \in Ops : rcClosed'[o] # rcClosed[o] =>
            \E t \in Threads :
                /\ bpc[o][t] = "idle"
                /\ rcClosed'[o] = rcClosed[o] + 1
                /\ last'[o][t][1] = "close"
                /\ modReq' = modReq /\ fn' = fn
                /\ fn[o] # Nil =>
                      (bpc'[o][t] = "fn_lock" /\ fired'[o] = fired[o] + 1)]_vars

C13_Witness ==
    \E o \in Ops :
        /\ bpc[o][1] = "idle"
        /\ calls[o] = 1
        /\ bret[o][1] = <<"close", 0, Err("close")>>
        /\ fired[o] = 1
        /\ Entry(o) \notin modReq.e

\* C14 (as claimed): also when an EOF Read and a Close of one body overlap
\* on two goroutines, the cleanup callback is invoked at most once.
C14_OnceUnderRace == \A o \in Ops : fired[o] <= 1

\* C14 (amended): when an EOF Read and a Close of one body overlap, each of
\* them may invoke the callback: it is invoked at most once per goroutine,
\* only by calls that read r.fn before it was set to nil, and never by a call
\* that begins after r.fn was set to nil; once the calls have returned the
\* callback has run, r.fn is nil and the entry is gone.
C14_OncePerRacingCall ==
    /\ [](\A o \in Ops :
            /\ fired[o] <= Cardinality({1, Closer})
            /\ fired[o] >= Cardinality({t \in Threads : bpc[o][t] # "idle"})
            /\ BodyDone(o) =>
                  (fired[o] >= 1 /\ fn[o] = Nil /\ Entry(o) \notin modReq.e))
    /\ [][\A o \in Ops :
            /\ fn[o] = Nil => fired'[o] = fired[o]
            /\ fired'[o] # fired[o] =>
                  \E t \in Threads :
                      /\ bpc[o][t] = "idle" /\ bpc'[o][t] = "fn_lock"
                      /\ fired'[o] = fired[o] + 1]_vars

C14_Witness ==
    \E o \in Ops :
        /\ fired[o] = 2
        /\ BodyDone(o)
        /\ bret[o][1] = <<"read", 0, EOF>>
        /\ bret[o][Closer][1] = "close"
        /\ fn[o] = Nil

\* o returned a response whose body was neither read to EOF nor closed
Abandoned(o) == pc[o] = "returned" /\ calls[o] = 0

\* C15: the entry of a successful RoundTrip whose body is never read to EOF
\* and never closed stays in the map: no RoundTrip, failure, cleanup or
\* CancelRequest of another request removes it, and as long as nothing else
\* concerns its request (no CancelRequest of it, no other RoundTrip of it)
\* the entry is in the map.
C15_AbandonedEntryStays ==
    /\ [](\A o \in Ops :
            (/\ Abandoned(o)
             /\ \A c \in Cancellers : cpc[c] = "idle" \/ creq[c] # opReq[o]
             /\ \A p \in Ops \ {o} : pc[p] = "idle" \/ opReq[p] # opReq[o])
                => Entry(o) \in modReq.e)
    /\ [][\A o \in Ops :
            (Abandoned(o) /\ Entry(o) \in modReq.e /\ Entry(o) \notin modReq'.e)
                => (CancelOf(opReq[o]) \/ OtherSend(o))]_vars

C15_Witness ==
    \E o \in Ops, p \in Ops, c \in Cancellers :
        /\ Abandoned(o)
        /\ Entry(o) \in modReq.e
        /\ opReq[p] # opReq[o]
        /\ pc[p] = "send_failed"
        /\ baseCancels
        /\ cpc[c] = "done"
        /\ creq[c] # opReq[o]

\* C16: when the same request object is sent again while an earlier
\* RoundTrip of it is still in flight, the cleanup of the earlier one (send
\* failure, EOF read or Close) leaves the entry recorded by the later one in
\* the map, and a CancelRequest of the request forwards the clone of a
\* RoundTrip that is still in flight.
C16_EarlierCleanupSparesLater ==
    [][/\ \A o \in Ops, p \in Ops :
            (/\ o # p
             /\ opReq[o] = opReq[p]
             /\ OwnCleanup(o)
             /\ InFlight(p)
             /\ Entry(p) \in modReq.e)
                => Entry(p) \in modReq'.e
       /\ \A c \in Cancellers :
            (cpc[c] = "locked" /\ cpc'[c] = "forward" /\ cmod'[c] # Nil)
                => \E o \in Ops :
                      /\ cmod'[c] = Clone(o)
                      /\ opReq[o] = creq[c]
                      /\ InFlight(o)]_vars

\* the entries the map m holds under the caller's request r
Under(m, r) == {p \in m.e : p[1] = Orig(r)}

\* the step is a map operation of a RoundTrip or CancelRequest of request r
Concerns(r) ==
    \/ \E o \in Ops :
          /\ opReq[o] = r
          /\ \/ pc[o] = "record_locked" /\ pc'[o] = "sending"
             \/ OwnCleanup(o)
    \/ CancelOf(r)

\* C17: the record step, the send-failure cleanup, the EOF/Close cleanup and
\* CancelRequest of one request A never add, remove or change the entry
\* stored under a different request B, under any interleaving; the map holds
\* at most one entry per request.
C17_OtherKeysUntouched ==
    /\ [](\A r \in Reqs : Cardinality(Under(modReq, r)) <= 1)
    /\ [][\A b \in Reqs :
            Under(modReq', b) # Under(modReq, b)
                => (Concerns(b) /\ \A a \in Reqs \ {b} : ~Concerns(a))]_vars

C17_Witness ==
    \E o \in Ops, p \in Ops, c \in Cancellers :
        /\ opReq[o] # opReq[p]
        /\ BodyDone(o)
        /\ pc[p] = "sending"
        /\ Under(modReq, opReq[p]) = {Entry(p)}
        /\ baseCancels
        /\ cpc[c] = "done"
        /\ creq[c] = opReq[o]

\* C18: when the Modifier fails on a request that has a body, RoundTrip has
\* closed that body exactly once by the time it returns (and Base never saw
\* it); on every path on which Base.RoundTrip was invoked and returned,
\* RoundTrip itself makes no Close call on the request's body.
C18_CloseOnModifierFailureOnly ==
    /\ [](\A o \in Ops :
            /\ pc[o] = "mod_failed" =>
                  /\ closes[o].ic = (IF HasBody(opReq[o]) THEN 1 ELSE 0)
                  /\ closes[o].base = 0
                  /\ baseGot[o] = Nil
            /\ pc[o] \in {"cleanup", "cleanup_locked", "send_failed", "returned"}
                  => closes[o].ic = 0)
    /\ [][\A o \in Ops :
            closes'[o].ic # closes[o].ic
                => (/\ pc[o] = "intercepting" /\ pc'[o] = "mod_failed"
                    /\ closes'[o].ic = closes[o].ic + 1)]_vars

C18_Witness ==
    \E o \in Ops, p \in Ops :
        /\ pc[o] = "mod_failed" /\ HasBody(opReq[o])
        /\ closes[o].ic = 1
        /\ pc[p] = "send_failed" /\ HasBody(opReq[p])
        /\ closes[p].ic = 0

\* a CancelRequest looked up and deleted the entry that o recorded
CancelledEntry(o) ==
    \E c \in Cancellers : cpc[c] \in {"forward", "done"} /\ cmod[c] = Clone(o)

\* C19: after CancelRequest removed the entry of a RoundTrip, the completion
\* of that RoundTrip (Base returning an error, the body reaching EOF or being
\* closed) leaves the tracking map as it is, the cleanup callback still runs
\* at most once, and RoundTrip returns what Base returned.
C19_CompletionAfterCancelNoOp ==
    /\ [](\A o \in Ops :
            CancelledEntry(o) =>
                /\ fired[o] <= 1
                /\ pc[o] = "send_failed" =>
                      ret[o] = [res |-> Nil, err |-> baseRet[o].err]
                /\ pc[o] = "returned" => ret[o] = baseRet[o])
    /\ [][\A o \in Ops :
            (CancelledEntry(o) /\ OwnCleanup(o)) => modReq'.e = modReq.e]_vars

\* C20: the interceptor does not deadlock: under fair scheduling and any
\* interleaving of RoundTrip, CancelRequest and body Read/Close, k.mu is
\* released after every acquisition, and a RoundTrip whose Modifier returned
\* reaches Base.RoundTrip and, once Base.RoundTrip returned an error, returns
\* to its caller (when Base returns a response RoundTrip returns at once).
C20_DeadlockFree ==
    /\ (mu # Free) ~> (mu = Free)
    /\ \A o \in Ops :
          (pc[o] \in {"record", "record_locked"}) ~> (pc[o] = "sending")
    /\ \A o \in Ops :
          (pc[o] \in {"cleanup", "cleanup_locked"}) ~> (pc[o] = "send_failed")

C20_Witness ==
    \E o \in Ops, p \in Ops, c \in Cancellers :
        /\ mu = BodyT(o, 1)
        /\ pc[p] = "cleanup"
        /\ cpc[c] = "lock"

====
